---- MODULE Spec2Model ----
(***************************************************************************)
(* A model of the exonum cryptocurrency service (src/src/main.rs and       *)
(* src/src/api.rs): the wallets table, the two transactions with their     *)
(* verify and execute rules, the REST handlers, and the node around them   *)
(* (transaction pool, fork, commit of blocks) as far as the handlers and   *)
(* the transactions see it.                                                *)
(***************************************************************************)
EXTENDS Integers, Sequences, FiniteSets, TLC

(***************************************************************************)
(* Bounds of the model.                                                    *)
(***************************************************************************)
\* transactions executed in one behaviour
MaxExec == 4
\* blocks committed after the genesis block
MaxCommits == 2
\* verified transactions waiting in the pool at one time
MaxPool == 1

(***************************************************************************)
(* Program constants, main.rs:49-59.                                       *)
(***************************************************************************)
SERVICE_ID == 1
TX_CREATE_WALLET_ID == 1
TX_TRANSFER_ID == 2
INIT_BALANCE == 100
\* the table index CurrencySchema::wallets passes to gen_prefix, main.rs:106
WALLETS_TABLE_ID == 0
\* the table_id wallet_info passes to BlockWithState::new, main.rs:288
WalletInfoTableId == 0

(***************************************************************************)
(* u64.  TLC's integers are 32 bits wide, so a u64 is kept as three limbs, *)
(* least significant first: 30 bits, 30 bits and 4 bits.                   *)
(***************************************************************************)
LimbBase == 1073741824
TopBase == 16

U64(n) == <<n % LimbBase, n \div LimbBase, 0>>
U64_MAX == <<LimbBase - 1, LimbBase - 1, TopBase - 1>>

\* a >= b on u64
U64Ge(a, b) ==
    \/ a[3] > b[3]
    \/ a[3] = b[3] /\ a[2] > b[2]
    \/ a[3] = b[3] /\ a[2] = b[2] /\ a[1] >= b[1]

\* a + b modulo 2^64
U64WrappingAdd(a, b) ==
    LET s1 == a[1] + b[1]
        s2 == a[2] + b[2] + (s1 \div LimbBase)
        s3 == a[3] + b[3] + (s2 \div LimbBase)
    IN  <<s1 % LimbBase, s2 % LimbBase, s3 % TopBase>>

\* a + b does not fit in a u64
U64AddOverflows(a, b) ==
    LET s1 == a[1] + b[1]
        s2 == a[2] + b[2] + (s1 \div LimbBase)
        s3 == a[3] + b[3] + (s2 \div LimbBase)
    IN  s3 >= TopBase

\* a - b modulo 2^64
U64WrappingSub(a, b) ==
    LET d1 == a[1] - b[1]
        b1 == IF d1 < 0 THEN 1 ELSE 0
        d2 == a[2] - b[2] - b1
        b2 == IF d2 < 0 THEN 1 ELSE 0
        d3 == a[3] - b[3] - b2
    IN  <<d1 % LimbBase, d2 % LimbBase, d3 % TopBase>>

\* a - b is below zero
U64SubOverflows(a, b) == ~U64Ge(a, b)

\* the number a u64 below 2^30 stands for
IsSmall(a) == a[2] = 0 /\ a[3] = 0
Val(a) == a[1]

(***************************************************************************)
(* Inputs.                                                                 *)
(***************************************************************************)
Keys == {1, 2, 3}
Names == {"alice", "bob"}
Amounts == {U64(100), U64_MAX}
Seeds == {U64(0), U64(1)}

(***************************************************************************)
(* Wallet, main.rs:69-90.                                                  *)
(***************************************************************************)
WalletNew(pub_key, name, balance) ==
    [pub_key |-> pub_key, name |-> name, balance |-> balance]

\* mutant: the credit subtracts
IncreaseSubtracts(w, amount) ==
    WalletNew(w.pub_key, w.name, U64WrappingSub(w.balance, amount))

\* mutant: the amount is credited twice
IncreaseTwice(w, amount) ==
    WalletNew(w.pub_key, w.name,
              U64WrappingAdd(U64WrappingAdd(w.balance, amount), amount))

Increase(w, amount) ==
    WalletNew(w.pub_key, w.name, U64WrappingAdd(w.balance, amount))

\* mutant: the debit is lost
DecreaseKeepsBalance(w, amount) ==
    WalletNew(w.pub_key, w.name, w.balance)

Decrease(w, amount) ==
    WalletNew(w.pub_key, w.name, U64WrappingSub(w.balance, amount))

(***************************************************************************)
(* CurrencySchema, main.rs:96-135.  A table is a function from the keys    *)
(* that have a record to the records.                                      *)
(***************************************************************************)
EmptyTable == [k \in {} |-> 0]

Has(table, key) == key \in DOMAIN table

\* mutant: a put drops the other records
PutForgetsOthers(table, key, w) == [k \in {key} |-> w]

Put(table, key, w) ==
    [k \in (DOMAIN table) \cup {key} |-> IF k = key THEN w ELSE table[k]]

\* the Merkle root of a table: a digest that two tables share exactly when
\* they hold the same entries
RootHash(table) == {<<k, table[k]>> : k \in DOMAIN table}

StateHash(table) == <<RootHash(table)>>

(***************************************************************************)
(* Transactions, main.rs:140-163.  sig is the key whose secret key signed  *)
(* the message.                                                            *)
(***************************************************************************)
TxCreateWallet(pub_key, name, sig) ==
    [id |-> TX_CREATE_WALLET_ID, pub_key |-> pub_key, name |-> name, sig |-> sig]

TxTransfer(from, to, amount, seed, sig) ==
    [id |-> TX_TRANSFER_ID, from |-> from, to |-> to, amount |-> amount,
     seed |-> seed, sig |-> sig]

VerifySignature(tx, pub_key) == tx.sig = pub_key

\* mutant: the signature is checked against the key that signed
TxCreateWalletVerifyAnySigner(tx) == VerifySignature(tx, tx.sig)

TxCreateWalletVerify(tx) == VerifySignature(tx, tx.pub_key)

\* mutant: the sender may be the receiver
TxTransferVerifySignatureOnly(tx) == VerifySignature(tx, tx.from)

TxTransferVerify(tx) == (tx.from # tx.to) /\ VerifySignature(tx, tx.from)

Verify(tx) ==
    IF tx.id = TX_CREATE_WALLET_ID THEN TxCreateWalletVerify(tx)
    ELSE TxTransferVerify(tx)

\* mutant: the wallet is written whether or not one exists
TxCreateWalletExecuteOverwrites(table, tx) ==
    [wallets |-> Put(table, tx.pub_key,
                     WalletNew(tx.pub_key, tx.name, U64(INIT_BALANCE))),
     panicked |-> FALSE, printed |-> TRUE]

\* mutant: the wallet is opened empty
TxCreateWalletExecuteEmptyWallet(table, tx) ==
    IF ~Has(table, tx.pub_key)
    THEN [wallets |-> Put(table, tx.pub_key, WalletNew(tx.pub_key, tx.name, U64(0))),
          panicked |-> FALSE, printed |-> TRUE]
    ELSE [wallets |-> table, panicked |-> FALSE, printed |-> FALSE]

\* The result of execute: the table after it, whether it panicked, and
\* whether it printed its line (main.rs:180, main.rs:207).
TxCreateWalletExecute(table, tx) ==
    IF ~Has(table, tx.pub_key)
    THEN [wallets |-> Put(table, tx.pub_key,
                          WalletNew(tx.pub_key, tx.name, U64(INIT_BALANCE))),
          panicked |-> FALSE, printed |-> TRUE]
    ELSE [wallets |-> table, panicked |-> FALSE, printed |-> FALSE]

\* mutant: the comparison is turned around
SufficientBalanceSwapped(sender, amount) == U64Ge(amount, sender.balance)

\* mutant: the balance must exceed the amount
SufficientBalanceStrict(sender, amount) == ~U64Ge(amount, sender.balance)

\* the condition of main.rs:204
SufficientBalance(sender, amount) == U64Ge(sender.balance, amount)

\* mutant: a missing receiver is opened with the amount
TxTransferExecuteOpensReceiver(table, tx, build) ==
    IF Has(table, tx.from)
    THEN LET sender == table[tx.from]
             receiver == IF Has(table, tx.to) THEN table[tx.to]
                         ELSE WalletNew(tx.to, "", U64(0))
             amount == tx.amount
         IN  IF SufficientBalance(sender, amount)
             THEN IF build = "debug"
                     /\ (\/ U64SubOverflows(sender.balance, amount)
                         \/ U64AddOverflows(receiver.balance, amount))
                  THEN [wallets |-> table, panicked |-> TRUE, printed |-> FALSE]
                  ELSE [wallets |-> Put(Put(table, tx.from, Decrease(sender, amount)),
                                        tx.to, Increase(receiver, amount)),
                        panicked |-> FALSE, printed |-> TRUE]
             ELSE [wallets |-> table, panicked |-> FALSE, printed |-> FALSE]
    ELSE [wallets |-> table, panicked |-> FALSE, printed |-> FALSE]

\* mutant: each record is put under the other's key
TxTransferExecuteSwapsKeys(table, tx, build) ==
    IF Has(table, tx.from) /\ Has(table, tx.to)
    THEN LET sender == table[tx.from]
             receiver == table[tx.to]
             amount == tx.amount
         IN  IF SufficientBalance(sender, amount)
             THEN IF build = "debug"
                     /\ (\/ U64SubOverflows(sender.balance, amount)
                         \/ U64AddOverflows(receiver.balance, amount))
                  THEN [wallets |-> table, panicked |-> TRUE, printed |-> FALSE]
                  ELSE [wallets |-> Put(Put(table, tx.from, Increase(receiver, amount)),
                                        tx.to, Decrease(sender, amount)),
                        panicked |-> FALSE, printed |-> TRUE]
             ELSE [wallets |-> table, panicked |-> FALSE, printed |-> FALSE]
    ELSE [wallets |-> table, panicked |-> FALSE, printed |-> FALSE]

\* mutant: a transfer to the sender itself is skipped
TxTransferExecuteSkipsSelf(table, tx, build) ==
    IF Has(table, tx.from) /\ Has(table, tx.to) /\ tx.from # tx.to
    THEN LET sender == table[tx.from]
             receiver == table[tx.to]
             amount == tx.amount
         IN  IF SufficientBalance(sender, amount)
             THEN IF build = "debug"
                     /\ (\/ U64SubOverflows(sender.balance, amount)
                         \/ U64AddOverflows(receiver.balance, amount))
                  THEN [wallets |-> table, panicked |-> TRUE, printed |-> FALSE]
                  ELSE [wallets |-> Put(Put(table, tx.from, Decrease(sender, amount)),
                                        tx.to, Increase(receiver, amount)),
                        panicked |-> FALSE, printed |-> TRUE]
             ELSE [wallets |-> table, panicked |-> FALSE, printed |-> FALSE]
    ELSE [wallets |-> table, panicked |-> FALSE, printed |-> FALSE]

\* build: "debug" panics on an arithmetic overflow, "release" wraps.
TxTransferExecute(table, tx, build) ==
    IF Has(table, tx.from) /\ Has(table, tx.to)
    THEN LET sender == table[tx.from]
             receiver == table[tx.to]
             amount == tx.amount
         IN  IF SufficientBalance(sender, amount)
             THEN IF build = "debug"
                     /\ (\/ U64SubOverflows(sender.balance, amount)
                         \/ U64AddOverflows(receiver.balance, amount))
                  THEN [wallets |-> table, panicked |-> TRUE, printed |-> FALSE]
                  ELSE [wallets |-> Put(Put(table, tx.from, Decrease(sender, amount)),
                                        tx.to, Increase(receiver, amount)),
                        panicked |-> FALSE, printed |-> TRUE]
             ELSE [wallets |-> table, panicked |-> FALSE, printed |-> FALSE]
    ELSE [wallets |-> table, panicked |-> FALSE, printed |-> FALSE]

Execute(table, tx, build) ==
    IF tx.id = TX_CREATE_WALLET_ID THEN TxCreateWalletExecute(table, tx)
    ELSE TxTransferExecute(table, tx, build)

Builds == {"debug", "release"}

\* The puts execute makes, in the order it makes them (main.rs:181 and
\* main.rs:209-210); none when it panics before them.
TxCreateWalletWrites(table, tx) ==
    IF ~Has(table, tx.pub_key)
    THEN <<[key |-> tx.pub_key,
            wallet |-> WalletNew(tx.pub_key, tx.name, U64(INIT_BALANCE))]>>
    ELSE <<>>

TxTransferWrites(table, tx, build) ==
    IF Has(table, tx.from) /\ Has(table, tx.to)
    THEN LET sender == table[tx.from]
             receiver == table[tx.to]
             amount == tx.amount
         IN  IF SufficientBalance(sender, amount)
             THEN IF build = "debug"
                     /\ (\/ U64SubOverflows(sender.balance, amount)
                         \/ U64AddOverflows(receiver.balance, amount))
                  THEN <<>>
                  ELSE <<[key |-> tx.from, wallet |-> Decrease(sender, amount)],
                         [key |-> tx.to, wallet |-> Increase(receiver, amount)]>>
             ELSE <<>>
    ELSE <<>>

Writes(table, tx, build) ==
    IF tx.id = TX_CREATE_WALLET_ID THEN TxCreateWalletWrites(table, tx)
    ELSE TxTransferWrites(table, tx, build)

(***************************************************************************)
(* Proof views, api.rs.                                                    *)
(***************************************************************************)
StateTableKey(service_id, table_id) ==
    [service_id |-> service_id, table_id |-> table_id]

KeyValuePair(key, value) == [key |-> key, value |-> value]

\* ProofMapIndex::get_proof: the proof commits to the root of the table it
\* was computed in; a verifier recomputes that root from the proof.
GetProof(table, key) ==
    [root |-> RootHash(table), key |-> key, found |-> Has(table, key)]

\* mutant: the entry is left out
MapViewNewWithoutEntry(table, key) ==
    [proof |-> GetProof(table, key), entries |-> <<>>]

MapViewNew(table, key) ==
    [proof |-> GetProof(table, key),
     entries |-> IF Has(table, key)
                 THEN <<KeyValuePair(key, table[key])>>
                 ELSE <<>>]

\* blockchain::gen_prefix(SERVICE_ID, 0, &()): the namespace of the table
\* CurrencySchema::wallets opens
WalletsPrefix == <<SERVICE_ID, WALLETS_TABLE_ID>>

\* The state-hash aggregator of a snapshot: the root of every service
\* table, under the pair (service_id, table index in state_hash()).
StateAggregator(snapshot) ==
    [p \in {<<SERVICE_ID, i - 1>> : i \in 1..Len(snapshot.block.state_hash)}
        |-> snapshot.block.state_hash[p[2] + 1]]

GetProofToServiceTable(snapshot, service_id, table_id) ==
    LET agg == StateAggregator(snapshot)
        p == <<service_id, table_id>>
    IN  [key |-> p,
         found |-> p \in DOMAIN agg,
         value |-> IF p \in DOMAIN agg THEN <<agg[p]>> ELSE <<>>]

\* Block::hash: a digest that two blocks share exactly when they are the
\* same block
BlockHash(block) == <<"hash", block>>

\* Schema::block_and_precommits: the precommits of the validators endorse
\* the hash of the block they come with (main.rs:359-363 configures one
\* validator).
Precommits(block) == {[validator |-> 0, block_hash |-> BlockHash(block)]}

\* mutant: the latest block is looked up one height too high
BlockWithStateNewOffByOne(snapshot, service_id, table_id, table_view) ==
    IF snapshot.height <= 1
    THEN [panicked |-> TRUE]
    ELSE [panicked |-> FALSE,
          block |-> snapshot.block,
          precommits |-> Precommits(snapshot.block),
          state |-> [proof |-> GetProofToServiceTable(snapshot, service_id, table_id),
                     entries |-> <<KeyValuePair(StateTableKey(service_id, table_id),
                                                table_view)>>]]

\* mutant: the state proof is asked for the table after the one in the key
BlockWithStateNewProofOfNextTable(snapshot, service_id, table_id, table_view) ==
    IF snapshot.height = 0
    THEN [panicked |-> TRUE]
    ELSE [panicked |-> FALSE,
          block |-> snapshot.block,
          precommits |-> Precommits(snapshot.block),
          state |-> [proof |-> GetProofToServiceTable(snapshot, service_id, table_id + 1),
                     entries |-> <<KeyValuePair(StateTableKey(service_id, table_id),
                                                table_view)>>]]

\* BlockWithState::new.  With no block in the snapshot, `len() - 1`
\* overflows (debug) or the unwrap of block_and_precommits fails (release).
BlockWithStateNew(snapshot, service_id, table_id, table_view) ==
    IF snapshot.height = 0
    THEN [panicked |-> TRUE]
    ELSE [panicked |-> FALSE,
          block |-> snapshot.block,
          precommits |-> Precommits(snapshot.block),
          state |-> [proof |-> GetProofToServiceTable(snapshot, service_id, table_id),
                     entries |-> <<KeyValuePair(StateTableKey(service_id, table_id),
                                                table_view)>>]]

\* Serialize for BlockWithState, api.rs:94-113: the fields of the header
\* one by one, then precommits and state.  The state_hash of the block is
\* not among them.  Of the header the model carries height and state_hash;
\* prev_hash, schema_version, proposer_id, tx_count and tx_hash, which the
\* framework fills in, are not modelled and so are absent here.
BlockWithStateSerialize(b) ==
    [height |-> b.block.height,
     precommits |-> b.precommits,
     state |-> b.state]

(***************************************************************************)
(* The node.                                                               *)
(*   db      the committed store: the wallets table, the number of blocks  *)
(*           and the header of the latest one                              *)
(*   fork    the wallets table of the fork the next block is executed in   *)
(*   pool    the verified transactions waiting to be ordered               *)
(*   nExec   the number of transactions executed so far                    *)
(*   crashed the node has panicked                                         *)
(*   wiView  the map view a wallet_info handler holds between its two      *)
(*           snapshots, with the namespace of the table it was read from;  *)
(*           <<>> when none is running                                     *)
(*   writing the transaction whose puts the node is making, with the table  *)
(*           it started from and the puts still to make; <<>> between       *)
(*           transactions                                                   *)
(*   event   what the latest step did, answered and printed                *)
(***************************************************************************)
VARIABLES db, fork, pool, nExec, crashed, wiView, writing, event

vars == <<db, fork, pool, nExec, crashed, wiView, writing, event>>

Block(height, table) == [height |-> height, state_hash |-> StateHash(table)]

\* Node::new commits the genesis block before the API is served.
Init ==
    /\ db = [wallets |-> EmptyTable, height |-> 1, block |-> Block(0, EmptyTable)]
    /\ fork = EmptyTable
    /\ pool = {}
    /\ nExec = 0
    /\ crashed = FALSE
    /\ wiView = <<>>
    /\ writing = <<>>
    /\ event = [kind |-> "init"]

\* Blockchain::snapshot
Snapshot == db

\* A signature is the signer's own or that of another key holder.
Forger(k) == (k % Cardinality(Keys)) + 1

Signers(k) == {k, Forger(k)}

CreateInputs(keys, names) ==
    UNION {{TxCreateWallet(k, n, s) : n \in names, s \in Signers(k)} : k \in keys}

TransferInputs(keys, amounts, seeds) ==
    UNION {{TxTransfer(f, t, a, sd, s) :
                t \in keys, a \in amounts, sd \in seeds, s \in Signers(f)} : f \in keys}

\* what bodyparser makes of a request body: Ok(None), Err(e), Ok(Some(tx))
BodiesOf(keys, names, amounts, seeds) ==
    {[parsed |-> "none"], [parsed |-> "err"]}
        \cup {[parsed |-> "some", tx |-> tx] :
                  tx \in CreateInputs(keys, names) \cup TransferInputs(keys, amounts, seeds)}

\* the requests of the specification of the submission handler
ApiBodies == BodiesOf(Keys, Names, Amounts, Seeds)

\* the requests of the specification of the ledger
Bodies == BodiesOf(Keys, Names, Amounts, {U64(0)})

\* the requests of the specification of the whole node: two key holders,
\* who open wallets and move the initial balance
FewBodies == BodiesOf({1, 2}, {"alice"}, {U64(INIT_BALANCE)}, {U64(0)})

TxHash(tx) == <<"hash", tx>>

\* ApiSender::send: refuses a transaction that does not verify, and fails
\* when the node's channel is not open.
ChannelSend(tx, open) ==
    IF ~Verify(tx) THEN "verify_failed"
    ELSE IF ~open THEN "channel_failed"
    ELSE "sent"

\* mutant: the result of the send is dropped
ProcessTransactionIgnoresSend(body, open) ==
    IF body.parsed = "some"
    THEN [resp |-> [status |-> "ok", tx_hash |-> TxHash(body.tx)],
          queued |-> IF ChannelSend(body.tx, open) = "sent" THEN {body.tx} ELSE {}]
    ELSE [resp |-> [status |-> "incorrect_request"], queued |-> {}]

\* process_transaction, main.rs:241-257
ProcessTransaction(body, open) ==
    IF body.parsed = "some"
    THEN LET sent == ChannelSend(body.tx, open)
         IN  IF sent = "sent"
             THEN [resp |-> [status |-> "ok", tx_hash |-> TxHash(body.tx)],
                   queued |-> {body.tx}]
             ELSE [resp |-> [status |-> "events_error", error |-> sent],
                   queued |-> {}]
    ELSE [resp |-> [status |-> "incorrect_request"], queued |-> {}]

\* mutant: the handler executes the transaction it accepts
SubmitExecutes(body, open, logged) ==
    /\ ~crashed
    /\ LET r == ProcessTransaction(body, open)
       IN  /\ Cardinality(pool \cup r.queued) <= MaxPool
           /\ pool' = pool \cup r.queued
           /\ fork' = IF r.queued = {} THEN fork
                       ELSE Execute(fork, body.tx, "release").wallets
           /\ event' = IF logged
                        THEN [kind |-> "submit", resp |-> r.resp, logged |-> TRUE,
                              body |-> body, open |-> open]
                        ELSE [kind |-> "submit", resp |-> r.resp, logged |-> FALSE]
    /\ UNCHANGED <<db, nExec, crashed, wiView, writing>>

\* A request to one of the two POST routes.  The label of the step keeps
\* the request itself only when `logged`.
Submit(body, open, logged) ==
    /\ ~crashed
    /\ LET r == ProcessTransaction(body, open)
       IN  /\ Cardinality(pool \cup r.queued) <= MaxPool
           /\ pool' = pool \cup r.queued
           /\ event' = IF logged
                        THEN [kind |-> "submit", resp |-> r.resp, logged |-> TRUE,
                              body |-> body, open |-> open]
                        ELSE [kind |-> "submit", resp |-> r.resp, logged |-> FALSE]
    /\ UNCHANGED <<db, fork, nExec, crashed, wiView, writing>>

\* the node executes the next transaction of the block in the fork
ExecuteTx(tx, build) ==
    /\ ~crashed
    /\ writing = <<>>
    /\ nExec < MaxExec
    /\ tx \in pool
    /\ LET r == Execute(fork, tx, build)
       IN  /\ fork' = r.wallets
           /\ crashed' = r.panicked
           /\ event' = [kind |-> "execute", tx |-> tx, printed |-> r.printed]
    /\ pool' = pool \ {tx}
    /\ nExec' = nExec + 1
    /\ UNCHANGED <<db, wiView, writing>>

\* the node commits the block: the fork becomes the committed store
Commit ==
    /\ ~crashed
    /\ writing = <<>>
    /\ db.height <= MaxCommits
    /\ db' = [wallets |-> fork, height |-> db.height + 1,
              block |-> Block(db.height, fork)]
    /\ event' = [kind |-> "commit"]
    /\ UNCHANGED <<fork, pool, nExec, crashed, wiView, writing>>

\* the request parameter of wallet_info: absent, not a hex key, or a key
Params == {[given |-> "missing"], [given |-> "bad_hex"]}
              \cup {[given |-> "key", key |-> k] : k \in Keys}

\* mutant: the view is read from the fork of the block under construction
GetWalletViewOfFork(pub_key) == MapViewNew(fork, pub_key)

\* CryptocurrencyApi::get_wallet_view, main.rs:227-231
GetWalletView(pub_key) == MapViewNew(Snapshot.wallets, pub_key)

\* wallet_info up to get_wallet_view, main.rs:279-286
WalletInfoView(param) ==
    /\ ~crashed
    /\ wiView = <<>>
    /\ IF param.given = "key"
       THEN /\ wiView' = <<GetWalletView(param.key), WalletsPrefix>>
            /\ event' = [kind |-> "wallet_view", param |-> param]
       ELSE /\ wiView' = wiView
            /\ event' = [kind |-> "wallet_info", param |-> param,
                         resp |-> IF param.given = "missing"
                                  THEN [status |-> "incorrect_request"]
                                  ELSE [status |-> "from_hex"]]
    /\ UNCHANGED <<db, fork, pool, nExec, crashed, writing>>

\* wallet_info from BlockWithState::new on, main.rs:287-290: the answer is
\* the serialised bundle
WalletInfoBlock ==
    /\ ~crashed
    /\ wiView # <<>>
    /\ LET b == BlockWithStateNew(Snapshot, SERVICE_ID, WalletInfoTableId, wiView[1])
       IN  event' = [kind |-> "wallet_info", table |-> wiView[2],
                     resp |-> IF b.panicked THEN [status |-> "panicked"]
                              ELSE [status |-> "ok",
                                    bundle |-> BlockWithStateSerialize(b)]]
    /\ wiView' = <<>>
    /\ UNCHANGED <<db, fork, pool, nExec, crashed, writing>>

\* The whole node: submissions, execution, commits and proof queries.
Next ==
    \/ \E body \in FewBodies, open \in BOOLEAN : Submit(body, open, FALSE)
    \/ \E tx \in pool, build \in Builds : ExecuteTx(tx, build)
    \/ Commit
    \/ \E param \in Params : WalletInfoView(param)
    \/ WalletInfoBlock

Spec == Init /\ [][Next]_vars

\* The ledger: every request, and the execution of the accepted ones in
\* the fork.
NextLedger ==
    \/ \E body \in Bodies, open \in BOOLEAN : Submit(body, open, FALSE)
    \/ \E tx \in pool, build \in Builds : ExecuteTx(tx, build)

SpecLedger == Init /\ [][NextLedger]_vars

\* The submission handler alone, each step labelled with its request.
NextApi ==
    \E body \in ApiBodies, open \in BOOLEAN : Submit(body, open, TRUE)

\* Ledgers the handler may find: empty, one wallet, and two wallets after
\* a transfer of 100.
SampleTables ==
    {EmptyTable,
     Put(EmptyTable, 1, WalletNew(1, "alice", U64(INIT_BALANCE))),
     Put(Put(EmptyTable, 1, WalletNew(1, "alice", U64(0))),
         2, WalletNew(2, "bob", U64(200)))}

InitApi ==
    /\ db = [wallets |-> EmptyTable, height |-> 1, block |-> Block(0, EmptyTable)]
    /\ fork \in SampleTables
    /\ pool = {}
    /\ nExec = 0
    /\ crashed = FALSE
    /\ wiView = <<>>
    /\ writing = <<>>
    /\ event = [kind |-> "init"]

SpecApi == InitApi /\ [][NextApi]_vars

\* The execution of a transaction put by put: execute up to its first put,
\* on the fork as the transaction before it left it.
ExecuteBegin(tx, build) ==
    /\ ~crashed
    /\ writing = <<>>
    /\ nExec < MaxExec
    /\ tx \in pool
    /\ LET r == Execute(fork, tx, build)
           puts == Writes(fork, tx, build)
       IN  /\ crashed' = r.panicked
           /\ writing' = IF puts = <<>> THEN <<>>
                          ELSE <<[tx |-> tx, build |-> build, base |-> fork,
                                  puts |-> puts]>>
           /\ event' = [kind |-> "begin", tx |-> tx, printed |-> r.printed]
    /\ pool' = pool \ {tx}
    /\ nExec' = nExec + 1
    /\ UNCHANGED <<db, fork, wiView>>

\* the next put of the transaction in execution
ExecutePut ==
    /\ ~crashed
    /\ writing # <<>>
    /\ LET w == writing[1]
           p == w.puts[1]
       IN  /\ fork' = Put(fork, p.key, p.wallet)
           /\ writing' = IF Len(w.puts) = 1 THEN <<>>
                          ELSE <<[w EXCEPT !.puts = Tail(w.puts)]>>
           /\ event' = [kind |-> "put", key |-> p.key]
    /\ UNCHANGED <<db, pool, nExec, crashed, wiView>>

\* The whole node with the puts of a transaction as steps of their own:
\* the handlers run in their threads while the node executes.
NextAtomic ==
    \/ \E body \in FewBodies : Submit(body, TRUE, FALSE)
    \/ \E tx \in pool, build \in Builds : ExecuteBegin(tx, build)
    \/ ExecutePut
    \/ Commit
    \/ \E param \in {p \in Params : p.given = "key"} : WalletInfoView(param)
    \/ WalletInfoBlock

SpecAtomic == Init /\ [][NextAtomic]_vars

\* The rules applied as functions: the store as main builds it, before
\* the node has committed the genesis block; transactions executed whether
\* or not they verify; proof bundles composed from any snapshot.
EmptyStore == [wallets |-> EmptyTable, height |-> 0]

RuleInputs ==
    CreateInputs({1, 2}, {"alice"}) \cup TransferInputs({1, 2}, Amounts, {U64(0)})

\* Transaction::execute on the fork, with no verification before it
Apply(tx, build) ==
    /\ ~crashed
    /\ writing = <<>>
    /\ nExec < MaxExec
    /\ LET r == Execute(fork, tx, build)
       IN  /\ fork' = r.wallets
           /\ crashed' = r.panicked
           /\ event' = [kind |-> "apply", tx |-> tx, printed |-> r.printed]
    /\ nExec' = nExec + 1
    /\ UNCHANGED <<db, pool, wiView, writing>>

\* MapView::new and BlockWithState::new on one snapshot
Compose(key) ==
    /\ ~crashed
    /\ event' = [kind |-> "compose", key |-> key,
                 result |-> BlockWithStateNew(Snapshot, SERVICE_ID, WalletInfoTableId,
                                              GetWalletView(key))]
    /\ UNCHANGED <<db, fork, pool, nExec, crashed, wiView, writing>>

InitRules ==
    /\ db = EmptyStore
    /\ fork = EmptyTable
    /\ pool = {}
    /\ nExec = 0
    /\ crashed = FALSE
    /\ wiView = <<>>
    /\ writing = <<>>
    /\ event = [kind |-> "init"]

NextRules ==
    \/ \E tx \in RuleInputs, build \in Builds : Apply(tx, build)
    \/ Commit
    \/ \E key \in Keys : Compose(key)

SpecRules == InitRules /\ [][NextRules]_vars

\* Delivery and re-delivery: the transactions that verify, executed in any
\* order and any number of times on the ledger of a new node.
ReplayInputs ==
    {tx \in CreateInputs({1, 2}, Names)
                \cup TransferInputs({1, 2}, {U64(0), U64(50)}, {U64(0)}) : Verify(tx)}

NextReplay ==
    \E tx \in ReplayInputs, build \in Builds : Apply(tx, build)

SpecReplay == Init /\ [][NextReplay]_vars

(***************************************************************************)
(* Vocabulary of the properties.                                           *)
(***************************************************************************)
\* the step executes a transaction; it is event'.tx
ExecStep == event'.kind = "execute" /\ nExec' = nExec + 1

\* the step executes a transaction as a function of the fork; it is event'.tx
ApplyStep == event'.kind = "apply" /\ nExec' = nExec + 1

IsCreate(tx) == tx.id = TX_CREATE_WALLET_ID
IsTransfer(tx) == tx.id = TX_TRANSFER_ID

\* the keys a transaction names
Named(tx) == IF IsCreate(tx) THEN {tx.pub_key} ELSE {tx.from, tx.to}

AllSmall(table) == \A k \in DOMAIN table : IsSmall(table[k].balance)

RECURSIVE SumBalances(_, _)
SumBalances(table, ks) ==
    IF ks = {} THEN 0
    ELSE LET k == CHOOSE x \in ks : TRUE
         IN  Val(table[k].balance) + SumBalances(table, ks \ {k})

\* the total supply of a table whose balances are all small
Supply(table) == SumBalances(table, DOMAIN table)

(***************************************************************************)
(* C1.  A TxTransfer executed with both wallets present, from # to and     *)
(* balance(from) >= amount leaves the sender with exactly balance(from) -  *)
(* amount and the receiver with exactly balance(to) + amount, so the sum   *)
(* of the two balances is the same before and after.                       *)
(***************************************************************************)
C1_TransferMovesExactly ==
    [][(/\ ExecStep
        /\ IsTransfer(event'.tx)
        /\ Has(fork, event'.tx.from) /\ Has(fork, event'.tx.to)
        /\ event'.tx.from # event'.tx.to
        /\ U64Ge(fork[event'.tx.from].balance, event'.tx.amount))
       => LET tx == event'.tx
              f0 == fork[tx.from].balance
              t0 == fork[tx.to].balance
              f1 == fork'[tx.from].balance
              t1 == fork'[tx.to].balance
          IN  /\ ~crashed'
              /\ IsSmall(tx.amount) /\ IsSmall(f0) /\ IsSmall(t0)
              /\ IsSmall(f1) /\ IsSmall(t1)
              /\ Val(f1) = Val(f0) - Val(tx.amount)
              /\ Val(t1) = Val(t0) + Val(tx.amount)
              /\ Val(f1) + Val(t1) = Val(f0) + Val(t0)]_vars

\* 100 moved from one fresh wallet to another
C1_Witness ==
    /\ event.kind = "execute"
    /\ event.printed
    /\ IsTransfer(event.tx)
    /\ event.tx.amount = U64(100)
    /\ Has(fork, event.tx.from) /\ Has(fork, event.tx.to)
    /\ fork[event.tx.from].balance = U64(0)
    /\ fork[event.tx.to].balance = U64(200)

(***************************************************************************)
(* C2.  As claimed: the total supply, the sum of all balances, is the same *)
(* before and after every executed transaction, TxCreateWallet or          *)
(* TxTransfer.                                                             *)
(***************************************************************************)
C2_SupplyInvariant_Original ==
    [][ExecStep => (AllSmall(fork) /\ AllSmall(fork')
                    /\ Supply(fork') = Supply(fork))]_vars

(***************************************************************************)
(* C2, amended.  Every executed TxTransfer, and every TxCreateWallet for a *)
(* key that already has a wallet, leaves the total supply unchanged; a     *)
(* TxCreateWallet for a key without a wallet raises it by exactly          *)
(* INIT_BALANCE.                                                           *)
(***************************************************************************)
C2_SupplyChangesOnlyByCreation ==
    [][ExecStep
       => /\ AllSmall(fork) /\ AllSmall(fork')
          /\ Supply(fork') =
                IF IsCreate(event'.tx) /\ ~Has(fork, event'.tx.pub_key)
                THEN Supply(fork) + INIT_BALANCE
                ELSE Supply(fork)]_vars

\* two wallets created and funds moved between them
C2_Witness ==
    /\ event.kind = "execute"
    /\ IsTransfer(event.tx)
    /\ Cardinality(DOMAIN fork) = 2
    /\ AllSmall(fork)
    /\ Supply(fork) = 2 * INIT_BALANCE
    /\ \E k \in DOMAIN fork : Val(fork[k].balance) > INIT_BALANCE

(***************************************************************************)
(* C3.  A TxTransfer whose amount exceeds the sender's balance changes no  *)
(* wallet record; a transfer that changes the table had a sufficient       *)
(* balance, so the subtraction of Wallet::decrease never goes below zero:  *)
(* execution never panics and the sender's balance never grows by wrapping.*)
(***************************************************************************)
C3_InsufficientBalanceNoOp ==
    [][(ExecStep /\ IsTransfer(event'.tx))
       => LET tx == event'.tx
          IN  /\ ~crashed'
              /\ (Has(fork, tx.from) /\ ~U64Ge(fork[tx.from].balance, tx.amount))
                    => (fork' = fork /\ ~event'.printed)
              /\ (fork' # fork)
                    => /\ Has(fork, tx.from)
                       /\ U64Ge(fork[tx.from].balance, tx.amount)
                       /\ ~U64SubOverflows(fork[tx.from].balance, tx.amount)
                       /\ U64Ge(fork[tx.from].balance, fork'[tx.from].balance)]_vars

\* a transfer of 100 executed against a sender that holds nothing
C3_Witness ==
    /\ event.kind = "execute"
    /\ ~event.printed
    /\ IsTransfer(event.tx)
    /\ event.tx.amount = U64(100)
    /\ Has(fork, event.tx.from) /\ Has(fork, event.tx.to)
    /\ fork[event.tx.from].balance = U64(0)
    /\ fork[event.tx.to].balance = U64(200)

(***************************************************************************)
(* C4.  TxCreateWallet for a key that has a wallet changes nothing, and    *)
(* for a key without one stores the transaction's name and INIT_BALANCE;   *)
(* no step changes the name of a wallet.  So after several creations for   *)
(* one key the name is that of the first, and the balance is not reset.    *)
(***************************************************************************)
C4_CreateIsIdempotent ==
    [][/\ (ExecStep /\ IsCreate(event'.tx))
            => IF Has(fork, event'.tx.pub_key)
               THEN fork' = fork
               ELSE /\ Has(fork', event'.tx.pub_key)
                    /\ fork'[event'.tx.pub_key].name = event'.tx.name
                    /\ fork'[event'.tx.pub_key].balance = U64(INIT_BALANCE)
       /\ \A k \in DOMAIN fork :
              Has(fork', k) /\ fork'[k].name = fork[k].name]_vars

\* a second creation under another name, executed after a transfer had
\* changed the wallet's balance
C4_Witness ==
    /\ event.kind = "execute"
    /\ IsCreate(event.tx)
    /\ Has(fork, event.tx.pub_key)
    /\ fork[event.tx.pub_key].name # event.tx.name
    /\ fork[event.tx.pub_key].balance # U64(INIT_BALANCE)

(***************************************************************************)
(* C5.  TxTransfer::verify is false for every transfer with from = to,     *)
(* whatever its amount, seed and signature: submitted to the API, such a   *)
(* transfer is answered with the verification error and never enters the  *)
(* pool.                                                                   *)
(***************************************************************************)
C5_SelfTransferNeverVerifies ==
    /\ (/\ event.kind = "submit"
        /\ event.body.parsed = "some"
        /\ IsTransfer(event.body.tx)
        /\ event.body.tx.from = event.body.tx.to)
       => /\ ~TxTransferVerify(event.body.tx)
          /\ event.resp.status = "events_error"
          /\ event.resp.error = "verify_failed"
    /\ \A tx \in pool : IsTransfer(tx) => tx.from # tx.to

\* a self-transfer signed by its own sender, submitted while the channel
\* is open
C5_Witness ==
    /\ event.kind = "submit"
    /\ event.open
    /\ event.body.parsed = "some"
    /\ IsTransfer(event.body.tx)
    /\ event.body.tx.from = event.body.tx.to
    /\ event.body.tx.sig = event.body.tx.from
    /\ event.body.tx.seed = U64(1)
    /\ event.resp.status = "events_error"

(***************************************************************************)
(* C6.  Every transaction in the pool and every executed transaction is    *)
(* signed by the key it names as its author (pub_key, from) and, if a      *)
(* transfer, has from # to; a submission answered with an error leaves the *)
(* pool, the fork and the committed store as they were.                    *)
(***************************************************************************)
Authentic(tx) ==
    IF IsCreate(tx) THEN tx.sig = tx.pub_key
    ELSE tx.sig = tx.from /\ tx.from # tx.to

C6_OnlyVerifiedExecuted ==
    [][/\ \A tx \in pool' : Authentic(tx)
       /\ ExecStep => (event'.tx \in pool /\ Authentic(event'.tx))
       /\ (event'.kind = "submit" /\ event'.resp.status # "ok")
             => (pool' = pool /\ fork' = fork /\ db' = db)]_vars

\* a submission refused by verification, after transactions have executed
C6_Witness ==
    /\ event.kind = "submit"
    /\ event.resp.status = "events_error"
    /\ event.resp.error = "verify_failed"
    /\ nExec > 1
    /\ fork # EmptyTable

(***************************************************************************)
(* C7.  As claimed: in every bundle wallet_info returns, the root implied  *)
(* by the wallets map proof is the value the state-commitment proof leads  *)
(* to, and the block of the bundle's height with that root as its state    *)
(* hash is the block whose hash the bundled precommits endorse.            *)
(***************************************************************************)
BundleView(bundle) == bundle.state.entries[1].value

C7_BundleFromOneState ==
    (event.kind = "wallet_info" /\ event.resp.status = "ok")
       => LET b == event.resp.bundle
              root == BundleView(b).proof.root
          IN  /\ b.state.proof.value = <<root>>
              /\ \A pc \in b.precommits :
                    pc.block_hash = BlockHash([height |-> b.height,
                                               state_hash |-> <<root>>])

(***************************************************************************)
(* C8.  The map view of a key without a wallet in the snapshot has no      *)
(* entries, and the query still returns a bundle; the view of a key with a *)
(* wallet has exactly one entry, the requested key with the wallet the     *)
(* snapshot stores under it, and its proof is one of that same snapshot.   *)
(***************************************************************************)
ViewMatchesItsProof(v) ==
    /\ Len(v.entries) <= 1
    /\ (v.entries = <<>>) <=> ~(\E e \in v.proof.root : e[1] = v.proof.key)
    /\ (v.entries # <<>>)
          => /\ v.entries[1].key = v.proof.key
             /\ <<v.entries[1].key, v.entries[1].value>> \in v.proof.root

C8_MapViewEntries ==
    /\ (event.kind = "wallet_view")
          => LET k == event.param.key
                 v == wiView[1]
             IN  /\ v.proof.key = k
                 /\ v.proof.root = RootHash(db.wallets)
                 /\ v.entries = IF Has(db.wallets, k)
                                THEN <<[key |-> k, value |-> db.wallets[k]]>>
                                ELSE <<>>
    /\ (wiView # <<>>) => ViewMatchesItsProof(wiView[1])
    /\ (/\ event.kind = "wallet_info"
        /\ event.resp.status \notin {"incorrect_request", "from_hex"})
          => /\ event.resp.status = "ok"
             /\ ViewMatchesItsProof(BundleView(event.resp.bundle))

\* a bundle for a key without a wallet, from a ledger that holds wallets
C8_Witness ==
    /\ event.kind = "wallet_info"
    /\ event.resp.status = "ok"
    /\ BundleView(event.resp.bundle).entries = <<>>
    /\ BundleView(event.resp.bundle).proof.root # {}

(***************************************************************************)
(* C9.  A TxTransfer whose sender or receiver has no wallet leaves the     *)
(* table as it was: no balance changes and no wallet is created.           *)
(***************************************************************************)
C9_MissingWalletNoOp ==
    [][(/\ ExecStep
        /\ IsTransfer(event'.tx)
        /\ (~Has(fork, event'.tx.from) \/ ~Has(fork, event'.tx.to)))
       => (fork' = fork /\ ~crashed')]_vars

\* a transfer of 100 from a wallet that holds it to a key without a wallet
C9_Witness ==
    /\ event.kind = "execute"
    /\ IsTransfer(event.tx)
    /\ event.tx.amount = U64(100)
    /\ Has(fork, event.tx.from)
    /\ ~Has(fork, event.tx.to)
    /\ Cardinality(DOMAIN fork) = 2

(***************************************************************************)
(* C10.  A wallet is never removed and keeps its public key and name; its  *)
(* balance changes only in the execution of a TxTransfer that names it as  *)
(* sender or receiver; an executed transaction leaves every key it does    *)
(* not name as it was, with or without a wallet.                           *)
(***************************************************************************)
C10_WalletsArePermanent ==
    [][/\ \A k \in DOMAIN fork :
            /\ Has(fork', k)
            /\ fork'[k].pub_key = fork[k].pub_key
            /\ fork'[k].name = fork[k].name
            /\ (fork'[k].balance # fork[k].balance)
                  => (ExecStep /\ IsTransfer(event'.tx)
                      /\ k \in {event'.tx.from, event'.tx.to})
       /\ ExecStep
            => \A k \in Keys \ Named(event'.tx) :
                  /\ Has(fork', k) <=> Has(fork, k)
                  /\ Has(fork, k) => fork'[k] = fork[k]
       /\ ~ExecStep => fork' = fork]_vars

\* a transfer between two wallets, executed beside a third one
C10_Witness ==
    /\ event.kind = "execute"
    /\ IsTransfer(event.tx)
    /\ DOMAIN fork = Keys
    /\ \E k \in Keys \ Named(event.tx) : fork[k].balance = U64(INIT_BALANCE)
    /\ fork[event.tx.from].balance # U64(INIT_BALANCE)

(***************************************************************************)
(* C11.  A submission whose transaction the channel does not take (the     *)
(* send fails: the node's channel is closed, or the transaction is         *)
(* refused) is answered with an error and the pool is left as it was; the  *)
(* answer carries a tx_hash only when the send succeeded, and then the     *)
(* transaction is in the pool.                                             *)
(***************************************************************************)
C11_SendFailureIsReported ==
    [][(event'.kind = "submit" /\ event'.body.parsed = "some")
       => LET tx == event'.body.tx
              resp == event'.resp
          IN  /\ resp.status \in {"ok", "events_error"}
              /\ (~event'.open \/ ~Verify(tx))
                    => /\ resp.status = "events_error"
                       /\ "tx_hash" \notin DOMAIN resp
                       /\ pool' = pool
              /\ (resp.status = "ok")
                    => /\ event'.open
                       /\ resp.tx_hash = TxHash(tx)
                       /\ tx \in pool']_vars

\* a correctly signed transfer between two keys, sent while the channel
\* is closed
C11_Witness ==
    /\ event.kind = "submit"
    /\ ~event.open
    /\ event.body.parsed = "some"
    /\ IsTransfer(event.body.tx)
    /\ Verify(event.body.tx)
    /\ event.resp.status = "events_error"
    /\ event.resp.error = "channel_failed"
    /\ event.body.tx \notin pool

(***************************************************************************)
(* C12.  A bundle composed from a snapshot without a committed block is    *)
(* never returned: the composer panics.  From a snapshot with at least one *)
(* block the composer returns a bundle, and its block is the latest one,   *)
(* at height (number of committed blocks - 1).                             *)
(***************************************************************************)
C12_NoBlockNoBundle ==
    (event.kind = "compose")
       => IF db.height = 0
          THEN /\ event.result.panicked
               /\ "block" \notin DOMAIN event.result
          ELSE /\ ~event.result.panicked
               /\ event.result.block.height = db.height - 1
               /\ event.result.precommits = Precommits(event.result.block)

\* a bundle asked of the store before the genesis block
C12_Witness ==
    /\ event.kind = "compose"
    /\ db.height = 0
    /\ event.result.panicked

(***************************************************************************)
(* C13.  No half-applied transfer is observed.  What a snapshot shows (the *)
(* committed table, every map view and every bundle made from it) is a     *)
(* table left by whole transactions: a commit takes the fork only between  *)
(* transactions, and a transaction begins only when the one before it has  *)
(* made all its puts, which together are the result of its execute.  In a  *)
(* table left by whole transactions the balances add up to INIT_BALANCE    *)
(* for each wallet; with the debit alone they do not.                      *)
(***************************************************************************)
TableOf(root) ==
    [k \in {e[1] : e \in root} |-> (CHOOSE e \in root : e[1] = k)[2]]

Settled(table) ==
    /\ AllSmall(table)
    /\ Supply(table) = INIT_BALANCE * Cardinality(DOMAIN table)

C13_NoHalfAppliedTransfer ==
    [][/\ (db' # db) => (writing = <<>> /\ db'.wallets = fork)
       /\ (event'.kind = "begin" /\ nExec' = nExec + 1)
             => (writing = <<>> /\ Settled(fork))
       /\ (writing # <<>> /\ writing' = <<>>)
             => fork' = Execute(writing[1].base, writing[1].tx,
                                writing[1].build).wallets
       /\ Settled(db'.wallets)
       /\ (wiView' # <<>>) => Settled(TableOf(wiView'[1].proof.root))
       /\ (event'.kind = "wallet_info" /\ event'.resp.status = "ok")
             => /\ Settled(TableOf(BundleView(event'.resp.bundle).proof.root))
                /\ Settled(TableOf(event'.resp.bundle.state.proof.value[1]))]_vars

\* a bundle with a wallet, answered while the fork holds the debit of a
\* transfer and not yet its credit
C13_Witness ==
    /\ event.kind = "wallet_info"
    /\ event.resp.status = "ok"
    /\ BundleView(event.resp.bundle).entries # <<>>
    /\ writing # <<>>
    /\ IsTransfer(writing[1].tx)
    /\ Len(writing[1].puts) = 1
    /\ ~Settled(fork)

(***************************************************************************)
(* C14.  As claimed: a transaction of either kind, executed a second time  *)
(* right after its execution, leaves the ledger as the first execution     *)
(* left it.                                                                *)
(***************************************************************************)
C14_ReexecutionIsNoOp_Original ==
    [][(ApplyStep /\ event.kind = "apply" /\ event'.tx = event.tx)
       => fork' = fork]_vars

(***************************************************************************)
(* C14, amended.  A TxCreateWallet executed a second time right after its  *)
(* execution leaves the ledger as the first execution left it.  A          *)
(* TxTransfer executed a second time does so only when a wallet is         *)
(* missing, the sender is left with less than the amount, or the amount is *)
(* 0; otherwise the second execution moves the amount once more.           *)
(***************************************************************************)
C14_ReexecutionOfTransferRepeats ==
    [][(ApplyStep /\ event.kind = "apply" /\ event'.tx = event.tx)
       => LET tx == event'.tx
          IN  IF IsCreate(tx) THEN fork' = fork
              ELSE IF /\ Has(fork, tx.from) /\ Has(fork, tx.to)
                      /\ U64Ge(fork[tx.from].balance, tx.amount)
                      /\ tx.amount # U64(0)
                   THEN /\ fork' # fork
                        /\ fork'[tx.from].balance
                              = U64WrappingSub(fork[tx.from].balance, tx.amount)
                        /\ fork'[tx.to].balance
                              = U64WrappingAdd(fork[tx.to].balance, tx.amount)
                   ELSE fork' = fork]_vars

\* the transfer of 50 that verifies, executed twice on two new wallets
C14_Witness ==
    /\ event.kind = "apply"
    /\ IsTransfer(event.tx)
    /\ event.printed
    /\ event.tx.amount = U64(50)
    /\ Cardinality(DOMAIN fork) = 2
    /\ fork[event.tx.from].balance = U64(0)
    /\ fork[event.tx.to].balance = U64(2 * INIT_BALANCE)

(***************************************************************************)
(* C15.  A request to the API leaves the ledger as it was: a submission,   *)
(* whatever its answer, and a proof query change neither the committed     *)
(* store nor the fork.  The fork changes only when the node executes a     *)
(* transaction taken from the pool, and the committed table only in a      *)
(* commit; the transaction of a tx_hash answer is in the pool, not yet     *)
(* executed, when the answer is given.                                     *)
(***************************************************************************)
C15_RequestsLeaveLedger ==
    [][/\ (event'.kind \in {"submit", "wallet_view", "wallet_info"})
             => (db' = db /\ fork' = fork /\ nExec' = nExec)
       /\ (event'.kind = "submit" /\ event'.resp.status = "ok")
             => event'.resp.tx_hash[2] \in pool'
       /\ (fork' # fork) => (ExecStep /\ event'.tx \in pool)
       /\ (db'.wallets # db.wallets) => event'.kind = "commit"]_vars

\* a tx_hash answered for the creation of a wallet that does not exist yet
C15_Witness ==
    /\ event.kind = "submit"
    /\ event.resp.status = "ok"
    /\ IsCreate(event.resp.tx_hash[2])
    /\ event.resp.tx_hash[2] \in pool
    /\ ~Has(fork, event.resp.tx_hash[2].pub_key)
    /\ ~Has(db.wallets, event.resp.tx_hash[2].pub_key)
    /\ db.wallets # EmptyTable

(***************************************************************************)
(* C16.  In every bundle wallet_info returns, the key of the state entry,  *)
(* the key the state-commitment proof was asked for and the namespace of   *)
(* the table the map view was read from are the one pair (SERVICE_ID, 0),  *)
(* and the aggregator of the snapshot has an entry under it.               *)
(***************************************************************************)
C16_OnePairThroughout ==
    (event.kind = "wallet_info" /\ event.resp.status = "ok")
       => LET b == event.resp.bundle
          IN  /\ Len(b.state.entries) = 1
              /\ b.state.entries[1].key.service_id = SERVICE_ID
              /\ b.state.entries[1].key.table_id = 0
              /\ b.state.proof.key = <<SERVICE_ID, 0>>
              /\ b.state.proof.found
              /\ event.table = <<SERVICE_ID, 0>>

\* a bundle with a wallet, composed after two more blocks
C16_Witness ==
    /\ event.kind = "wallet_info"
    /\ event.resp.status = "ok"
    /\ event.resp.bundle.height = 2
    /\ event.resp.bundle.state.proof.found
    /\ BundleView(event.resp.bundle).entries # <<>>

(***************************************************************************)
(* C17.  In every ledger reached from the empty one by executing           *)
(* transactions that verified, the balances add up to INIT_BALANCE times   *)
(* the number of wallets.                                                  *)
(***************************************************************************)
C17_SupplyIsInitBalancePerWallet ==
    /\ \A k \in DOMAIN fork : IsSmall(fork[k].balance)
    /\ Supply(fork) = INIT_BALANCE * Cardinality(DOMAIN fork)

\* three wallets, one of them emptied into another
C17_Witness ==
    /\ event.kind = "execute"
    /\ IsTransfer(event.tx)
    /\ DOMAIN fork = Keys
    /\ Supply(fork) = 3 * INIT_BALANCE
    /\ fork[event.tx.from].balance = U64(0)
    /\ fork[event.tx.to].balance = U64(2 * INIT_BALANCE)

(***************************************************************************)
(* C18.  TxTransfer::execute applied, without verification, to a transfer  *)
(* with from = to whose wallet exists and holds at least the amount: the   *)
(* credited record is put over the debited one, the wallet ends with its   *)
(* balance plus the amount, and the supply grows by the amount.  Such a    *)
(* transfer does not verify.                                               *)
(***************************************************************************)
C18_SelfTransferCredits ==
    [][(/\ ApplyStep
        /\ IsTransfer(event'.tx)
        /\ event'.tx.from = event'.tx.to
        /\ Has(fork, event'.tx.from)
        /\ U64Ge(fork[event'.tx.from].balance, event'.tx.amount))
       => LET tx == event'.tx
              b0 == fork[tx.from].balance
              b1 == fork'[tx.from].balance
          IN  /\ ~TxTransferVerify(tx)
              /\ ~crashed'
              /\ IsSmall(b0) /\ IsSmall(tx.amount) /\ IsSmall(b1)
              /\ Val(b1) = Val(b0) + Val(tx.amount)
              /\ AllSmall(fork) /\ AllSmall(fork')
              /\ Supply(fork') = Supply(fork) + Val(tx.amount)
              /\ \A k \in DOMAIN fork : k # tx.from => fork'[k] = fork[k]]_vars

\* the only wallet of the ledger after a transfer of 100 to itself
C18_Witness ==
    /\ event.kind = "apply"
    /\ event.printed
    /\ IsTransfer(event.tx)
    /\ event.tx.from = event.tx.to
    /\ event.tx.amount = U64(INIT_BALANCE)
    /\ DOMAIN fork = {event.tx.from}
    /\ fork[event.tx.from].balance = U64(2 * INIT_BALANCE)

(***************************************************************************)
(* C19.  In every ledger reached by verified transactions no balance       *)
(* exceeds INIT_BALANCE times the number of wallets, so the addition of    *)
(* Wallet::increase in an executed transfer stays within u64: it does not  *)
(* overflow, the node does not panic and the receiver's balance does not   *)
(* drop.                                                                   *)
(***************************************************************************)
C19_IncreaseNeverOverflows ==
    [][/\ \A k \in DOMAIN fork' :
            /\ IsSmall(fork'[k].balance)
            /\ Val(fork'[k].balance) <= INIT_BALANCE * Cardinality(DOMAIN fork')
       /\ (ExecStep /\ IsTransfer(event'.tx) /\ event'.printed)
            => /\ ~U64AddOverflows(fork[event'.tx.to].balance, event'.tx.amount)
               /\ U64Ge(fork'[event'.tx.to].balance, fork[event'.tx.to].balance)
       /\ ~crashed']_vars

\* a wallet that holds all there is, after a transfer between two wallets
C19_Witness ==
    /\ event.kind = "execute"
    /\ event.printed
    /\ IsTransfer(event.tx)
    /\ Cardinality(DOMAIN fork) = 2
    /\ Val(fork[event.tx.to].balance) = INIT_BALANCE * Cardinality(DOMAIN fork)

(***************************************************************************)
(* C20.  Every record of the wallets table is stored under its own public  *)
(* key: the wallet at key k has pub_key = k, in every ledger reached by    *)
(* verified transactions.                                                  *)
(***************************************************************************)
C20_StoredUnderOwnKey ==
    \A k \in DOMAIN fork : fork[k].pub_key = k

\* three wallets, after a transfer has rewritten two of them
C20_Witness ==
    /\ event.kind = "execute"
    /\ event.printed
    /\ IsTransfer(event.tx)
    /\ DOMAIN fork = Keys
    /\ fork[event.tx.from].pub_key = event.tx.from
    /\ fork[event.tx.to].pub_key = event.tx.to
    /\ fork[event.tx.to].balance # U64(INIT_BALANCE)

====
